---- MODULE Spec2Model ----
(***************************************************************************)
(* Admission control of the madara mempool:                                *)
(* crates/client/mempool/src/inner/limits.rs                               *)
(*   MempoolLimits, TransactionCheckedLimits, MempoolLimiter.              *)
(*                                                                         *)
(* Scaling.  usize is modelled with UsizeBits bits, so that USIZE_MAX and  *)
(* the wrap-around of the counters are within reach.  Time is counted in   *)
(* seconds relative to UNIX_EPOCH; the representable range of SystemTime   *)
(* and of Duration is scaled to what TLC's integers hold.  The wall clock  *)
(* (SystemTime::now) is an input of every call that reads it and is taken  *)
(* at or after UNIX_EPOCH.                                                 *)
(***************************************************************************)
EXTENDS Integers, FiniteSets, Bags, TLC

\* ------------------------------------------------------------------ bounds
\* width of usize in the model
UsizeBits == 3
\* largest configured cap taken from a chain configuration
MaxCap == 2
\* largest number of admissions not yet matched by a removal
MaxCount == 3
\* largest number of removals not matched by an admission (raw API only)
MaxDeficit == 1
\* largest number of transactions block production holds popped at once
MaxPopped == 2

\* --------------------------------------------------------------- constants
USIZE_MAX == 2^UsizeBits - 1
UNIX_EPOCH == 0
\* Duration::from_secs(10000000) of MempoolLimits::for_testing
TESTING_MAX_AGE == 10000000
\* earliest instant a SystemTime can hold (scaled)
SYSTEM_TIME_MIN == -1073741824
\* longest Duration (scaled)
DURATION_MAX == 2147483647

\* ------------------------------------------------------------------- types
\* blockifier TransactionType, as matched by limits_for
TxTypes == {"Declare", "DeployAccount", "InvokeFunction", "L1Handler"}

\* values the wall clock is read at
NowTimes == {UNIX_EPOCH + 1, TESTING_MAX_AGE + 1}

\* values of MempoolTransaction::arrived_at
ArrivalTimes == {SYSTEM_TIME_MIN, UNIX_EPOCH - 1, UNIX_EPOCH, UNIX_EPOCH + 1}

\* MempoolTransaction, reduced to what limits_for reads
Txs == [tx_type : TxTypes, arrived_at : ArrivalTimes]

\* transactions whose classification is recorded (their arrival time is not
\* read again once they are stored)
StoredTxs == [tx_type : TxTypes, arrived_at : {UNIX_EPOCH}]

\* MempoolLimits::new: the three values are copied from the chain config
ChainConfigs == [mempool_tx_limit : 0..MaxCap,
                 mempool_declare_tx_limit : 0..MaxCap,
                 mempool_tx_max_age : {1, TESTING_MAX_AGE, DURATION_MAX}]

MempoolLimits_new(chain_config) ==
    [max_transactions |-> chain_config.mempool_tx_limit,
     max_declare_transactions |-> chain_config.mempool_declare_tx_limit,
     max_age |-> chain_config.mempool_tx_max_age]

for_testing ==
    [max_age |-> TESTING_MAX_AGE,
     max_declare_transactions |-> USIZE_MAX,
     max_transactions |-> USIZE_MAX]

Configs == {MempoolLimits_new(cc) : cc \in ChainConfigs} \cup {for_testing}

\* ------------------------------------------------------------------- state
VARIABLES
    config,                        \* MempoolLimiter::config
    current_transactions,          \* MempoolLimiter::current_transactions
    current_declare_transactions,  \* MempoolLimiter::current_declare_transactions
    overflow_checks,               \* the build: are overflow checks compiled in
    panicked,                      \* a call has panicked (arithmetic overflow)
    net_total,                     \* #update_tx_limits calls - #mark_removed calls
    net_declare,                   \* the same over declare-flagged classifications
    pool,                          \* the mempool's stored classifications (a bag)
    popped,                        \* popped by block production, tick not finished
    pending,                       \* per producer: a check it passed, not yet recorded
    last,                          \* the last call: op, argument, clock, return,
                                   \* and the counters it found
    classified                     \* the last limits_for call: tx and its result

vars == <<config, current_transactions, current_declare_transactions,
          overflow_checks, panicked, net_total, net_declare, pool, popped,
          pending, last, classified>>

\* ------------------------------------------------- TransactionCheckedLimits
\* limits_for with the L1Handler arm copied from InvokeFunction
limits_for_l1_capped(tx) ==
    IF tx.tx_type = "Declare"
    THEN [check_tx_limit |-> TRUE, check_declare_limit |-> TRUE,
          check_age |-> TRUE, tx_arrived_at |-> tx.arrived_at]
    ELSE [check_tx_limit |-> TRUE, check_declare_limit |-> FALSE,
          check_age |-> TRUE, tx_arrived_at |-> tx.arrived_at]

limits_for(tx) ==
    CASE tx.tx_type = "Declare" ->
            [check_tx_limit |-> TRUE, check_declare_limit |-> TRUE,
             check_age |-> TRUE, tx_arrived_at |-> tx.arrived_at]
      [] tx.tx_type = "DeployAccount" ->
            [check_tx_limit |-> TRUE, check_declare_limit |-> FALSE,
             check_age |-> TRUE, tx_arrived_at |-> tx.arrived_at]
      [] tx.tx_type = "InvokeFunction" ->
            [check_tx_limit |-> TRUE, check_declare_limit |-> FALSE,
             check_age |-> TRUE, tx_arrived_at |-> tx.arrived_at]
      [] tx.tx_type = "L1Handler" ->
            [check_tx_limit |-> FALSE, check_declare_limit |-> FALSE,
             check_age |-> FALSE, tx_arrived_at |-> tx.arrived_at]

\* ----------------------------------------------------- MempoolLimitReached
Ok == [kind |-> "Ok", max |-> 0]
MaxTransactions(m) == [kind |-> "MaxTransactions", max |-> m]
MaxDeclareTransactions(m) == [kind |-> "MaxDeclareTransactions", max |-> m]
Age(m) == [kind |-> "Age", max |-> m]
\* returns that are no Result<(), MempoolLimitReached>
RetBool(b) == [kind |-> IF b THEN "true" ELSE "false", max |-> 0]
RetUnit == [kind |-> "unit", max |-> 0]
RetPanic == [kind |-> "panic", max |-> 0]

\* ---------------------------------------------------------- MempoolLimiter
\* SystemTime::checked_sub: None (<<>>) when the result is not representable
checked_sub(t, d) == IF t - d < SYSTEM_TIME_MIN THEN <<>> ELSE <<t - d>>
unwrap_or(o, default) == IF o = <<>> THEN default ELSE o[1]

\* tx_age_exceeded with the cutoff itself counted as too old (<= for <)
tx_age_exceeded_inclusive(to_check, current_time) ==
    IF to_check.check_age
    THEN to_check.tx_arrived_at
            <= unwrap_or(checked_sub(current_time, config.max_age), UNIX_EPOCH)
    ELSE FALSE

tx_age_exceeded(to_check, current_time) ==
    IF to_check.check_age
    THEN to_check.tx_arrived_at
            < unwrap_or(checked_sub(current_time, config.max_age), UNIX_EPOCH)
    ELSE FALSE

\* check_insert_limits with the declare cap tested before the total cap
check_insert_limits_declare_first(to_check, current_time) ==
    IF to_check.check_declare_limit
       /\ current_declare_transactions >= config.max_declare_transactions
    THEN MaxDeclareTransactions(config.max_declare_transactions)
    ELSE IF to_check.check_tx_limit
            /\ current_transactions >= config.max_transactions
    THEN MaxTransactions(config.max_transactions)
    ELSE IF tx_age_exceeded(to_check, current_time)
    THEN Age(config.max_age)
    ELSE Ok

\* check_insert_limits with the total cap tested whatever check_tx_limit says
check_insert_limits_unflagged(to_check, current_time) ==
    IF current_transactions >= config.max_transactions
    THEN MaxTransactions(config.max_transactions)
    ELSE IF to_check.check_declare_limit
            /\ current_declare_transactions >= config.max_declare_transactions
    THEN MaxDeclareTransactions(config.max_declare_transactions)
    ELSE IF tx_age_exceeded(to_check, current_time)
    THEN Age(config.max_age)
    ELSE Ok

\* check_insert_limits with the total cap compared by > instead of >=
check_insert_limits_total_off_by_one(to_check, current_time) ==
    IF to_check.check_tx_limit
       /\ current_transactions > config.max_transactions
    THEN MaxTransactions(config.max_transactions)
    ELSE IF to_check.check_declare_limit
            /\ current_declare_transactions >= config.max_declare_transactions
    THEN MaxDeclareTransactions(config.max_declare_transactions)
    ELSE IF tx_age_exceeded(to_check, current_time)
    THEN Age(config.max_age)
    ELSE Ok

\* check_insert_limits with the declare cap compared by > instead of >=
check_insert_limits_declare_off_by_one(to_check, current_time) ==
    IF to_check.check_tx_limit
       /\ current_transactions >= config.max_transactions
    THEN MaxTransactions(config.max_transactions)
    ELSE IF to_check.check_declare_limit
            /\ current_declare_transactions > config.max_declare_transactions
    THEN MaxDeclareTransactions(config.max_declare_transactions)
    ELSE IF tx_age_exceeded(to_check, current_time)
    THEN Age(config.max_age)
    ELSE Ok

\* check_insert_limits whose errors carry the counter, not the configured cap
check_insert_limits_reports_count(to_check, current_time) ==
    IF to_check.check_tx_limit
       /\ current_transactions >= config.max_transactions
    THEN MaxTransactions(current_transactions)
    ELSE IF to_check.check_declare_limit
            /\ current_declare_transactions >= config.max_declare_transactions
    THEN MaxDeclareTransactions(current_declare_transactions)
    ELSE IF tx_age_exceeded(to_check, current_time)
    THEN Age(config.max_age)
    ELSE Ok

\* check_insert_limits that takes a cap of zero for "no cap"
check_insert_limits_zero_unlimited(to_check, current_time) ==
    IF to_check.check_tx_limit /\ config.max_transactions # 0
       /\ current_transactions >= config.max_transactions
    THEN MaxTransactions(config.max_transactions)
    ELSE IF to_check.check_declare_limit /\ config.max_declare_transactions # 0
            /\ current_declare_transactions >= config.max_declare_transactions
    THEN MaxDeclareTransactions(config.max_declare_transactions)
    ELSE IF tx_age_exceeded(to_check, current_time)
    THEN Age(config.max_age)
    ELSE Ok

check_insert_limits(to_check, current_time) ==
    IF to_check.check_tx_limit
       /\ current_transactions >= config.max_transactions
    THEN MaxTransactions(config.max_transactions)
    ELSE IF to_check.check_declare_limit
            /\ current_declare_transactions >= config.max_declare_transactions
    THEN MaxDeclareTransactions(config.max_declare_transactions)
    ELSE IF tx_age_exceeded(to_check, current_time)
    THEN Age(config.max_age)
    ELSE Ok

\* the call sites that admit transactions: external submission, L1 ingestion
Producers == {"submit", "l1_sync"}

\* both counters, as a call finds them
Counters == <<current_transactions, current_declare_transactions>>

Init ==
    /\ config \in Configs
    /\ current_transactions = 0
    /\ current_declare_transactions = 0
    /\ overflow_checks \in BOOLEAN
    /\ panicked = FALSE
    /\ net_total = 0
    /\ net_declare = 0
    /\ pool = EmptyBag
    /\ popped = EmptyBag
    /\ pending = [p \in Producers |-> <<>>]
    /\ last = [op |-> "new", to_check |-> limits_for([tx_type |-> "L1Handler", arrived_at |-> UNIX_EPOCH]),
               now |-> UNIX_EPOCH, ret |-> RetUnit, pre |-> <<0, 0>>]
    /\ classified = [tx |-> [tx_type |-> "none", arrived_at |-> UNIX_EPOCH],
                     limits |-> [check_tx_limit |-> FALSE, check_declare_limit |-> FALSE,
                                 check_age |-> FALSE, tx_arrived_at |-> UNIX_EPOCH]]

\* the frame of a call that only reads the limiter
ReadOnly ==
    UNCHANGED <<config, current_transactions, current_declare_transactions,
                overflow_checks, panicked, net_total, net_declare, pool>>

\* TransactionCheckedLimits::limits_for(tx), called on its own
LimitsFor ==
    /\ ~panicked
    /\ \E tx \in Txs : classified' = [tx |-> tx, limits |-> limits_for(tx)]
    /\ ReadOnly
    /\ UNCHANGED <<last, popped, pending>>

\* usize arithmetic.  An overflowing += or -= panics in a build with overflow
\* checks and wraps in a build without them: Outcomes is what the build
\* produces, <<panics, value>>.
Outcomes(overflows, wrapped) ==
    IF overflows /\ overflow_checks THEN {<<TRUE, wrapped>>}
    ELSE {<<FALSE, wrapped>>}

add_assign_1(x) == Outcomes(x = USIZE_MAX, (x + 1) % (USIZE_MAX + 1))
sub_assign_1(x) == Outcomes(x = 0, (x + USIZE_MAX) % (USIZE_MAX + 1))

\* update_tx_limits that counts a transaction only when its cap is checked
update_tx_limits_checked_only(limits) ==
    /\ config' = config
    /\ overflow_checks' = overflow_checks
    /\ panicked' = panicked
    /\ current_transactions'
          = current_transactions + (IF limits.check_tx_limit THEN 1 ELSE 0)
    /\ current_declare_transactions'
          = current_declare_transactions + (IF limits.check_declare_limit THEN 1 ELSE 0)

\* update_tx_limits that counts nothing past the total cap
update_tx_limits_capped(limits) ==
    /\ config' = config
    /\ overflow_checks' = overflow_checks
    /\ panicked' = panicked
    /\ current_transactions'
          = IF limits.check_tx_limit /\ current_transactions >= config.max_transactions
            THEN current_transactions ELSE current_transactions + 1
    /\ current_declare_transactions'
          = IF limits.check_declare_limit
               /\ ~(limits.check_tx_limit /\ current_transactions >= config.max_transactions)
            THEN current_declare_transactions + 1 ELSE current_declare_transactions

\* self.current_transactions += 1;
\* if limits.check_declare_limit { self.current_declare_transactions += 1; }
\* A panic leaves the assignments made before it in place.
update_tx_limits(limits) ==
    /\ config' = config
    /\ overflow_checks' = overflow_checks
    /\ \E total \in add_assign_1(current_transactions) :
          IF total[1]
          THEN /\ panicked' = TRUE
               /\ UNCHANGED <<current_transactions, current_declare_transactions>>
          ELSE /\ current_transactions' = total[2]
               /\ IF limits.check_declare_limit
                  THEN \E declare \in add_assign_1(current_declare_transactions) :
                          IF declare[1]
                          THEN /\ panicked' = TRUE
                               /\ UNCHANGED current_declare_transactions
                          ELSE /\ panicked' = panicked
                               /\ current_declare_transactions' = declare[2]
                  ELSE /\ panicked' = panicked
                       /\ UNCHANGED current_declare_transactions

\* mark_removed that decrements current_declare_transactions whatever the flag
mark_removed_always_declare(to_update) ==
    /\ config' = config
    /\ overflow_checks' = overflow_checks
    /\ \E total \in sub_assign_1(current_transactions) :
          IF total[1]
          THEN /\ panicked' = TRUE
               /\ UNCHANGED <<current_transactions, current_declare_transactions>>
          ELSE /\ current_transactions' = total[2]
               /\ \E declare \in sub_assign_1(current_declare_transactions) :
                     IF declare[1]
                     THEN /\ panicked' = TRUE
                          /\ UNCHANGED current_declare_transactions
                     ELSE /\ panicked' = panicked
                          /\ current_declare_transactions' = declare[2]

\* mark_removed that leaves current_declare_transactions alone
mark_removed_total_only(to_update) ==
    /\ config' = config
    /\ overflow_checks' = overflow_checks
    /\ \E total \in sub_assign_1(current_transactions) :
          IF total[1]
          THEN /\ panicked' = TRUE
               /\ UNCHANGED <<current_transactions, current_declare_transactions>>
          ELSE /\ current_transactions' = total[2]
               /\ panicked' = panicked
               /\ UNCHANGED current_declare_transactions

\* self.current_transactions -= 1;
\* if to_update.check_declare_limit { self.current_declare_transactions -= 1; }
mark_removed(to_update) ==
    /\ config' = config
    /\ overflow_checks' = overflow_checks
    /\ \E total \in sub_assign_1(current_transactions) :
          IF total[1]
          THEN /\ panicked' = TRUE
               /\ UNCHANGED <<current_transactions, current_declare_transactions>>
          ELSE /\ current_transactions' = total[2]
               /\ IF to_update.check_declare_limit
                  THEN \E declare \in sub_assign_1(current_declare_transactions) :
                          IF declare[1]
                          THEN /\ panicked' = TRUE
                               /\ UNCHANGED current_declare_transactions
                          ELSE /\ panicked' = panicked
                               /\ current_declare_transactions' = declare[2]
                  ELSE /\ panicked' = panicked
                       /\ UNCHANGED current_declare_transactions

\* the two call counts, kept beside the limiter
CountAdmission(c) ==
    /\ net_total' = net_total + 1
    /\ net_declare' = net_declare + (IF c.check_declare_limit THEN 1 ELSE 0)

CountRemoval(c) ==
    /\ net_total' = net_total - 1
    /\ net_declare' = net_declare - (IF c.check_declare_limit THEN 1 ELSE 0)

Returned == IF panicked' THEN RetPanic ELSE RetUnit

\* ------------------------------------------- the limiter's API, called freely
\* check_insert_limits that already counts the transaction it accepts
CheckInsertLimits_recording ==
    /\ ~panicked
    /\ UNCHANGED <<classified, popped, pending>>
    /\ \E tx \in Txs, t \in NowTimes :
          /\ last' = [op |-> "check_insert_limits", to_check |-> limits_for(tx),
                      now |-> t, ret |-> check_insert_limits(limits_for(tx), t),
                      pre |-> Counters]
          /\ current_transactions'
                = IF check_insert_limits(limits_for(tx), t) = Ok
                     /\ current_transactions < MaxCount
                  THEN current_transactions + 1 ELSE current_transactions
    /\ UNCHANGED <<config, current_declare_transactions, overflow_checks,
                   panicked, net_total, net_declare, pool>>

CheckInsertLimits ==
    /\ ~panicked
    /\ UNCHANGED <<classified, popped, pending>>
    /\ \E tx \in Txs, t \in NowTimes :
          last' = [op |-> "check_insert_limits", to_check |-> limits_for(tx),
                   now |-> t, ret |-> check_insert_limits(limits_for(tx), t),
                      pre |-> Counters]
    /\ ReadOnly

TxAgeExceeded ==
    /\ ~panicked
    /\ UNCHANGED <<classified, popped, pending>>
    /\ \E tx \in Txs, t \in NowTimes :
          last' = [op |-> "tx_age_exceeded", to_check |-> limits_for(tx),
                   now |-> t, ret |-> RetBool(tx_age_exceeded(limits_for(tx), t)),
                      pre |-> Counters]
    /\ ReadOnly

UpdateTxLimits ==
    /\ ~panicked
    /\ UNCHANGED <<classified, popped, pending>>
    /\ \E tx \in StoredTxs :
          LET c == limits_for(tx) IN
          /\ net_total < MaxCount
          /\ c.check_declare_limit => net_declare < MaxCount
          /\ update_tx_limits(c)
          /\ CountAdmission(c)
          /\ last' = [op |-> "update_tx_limits", to_check |-> c,
                      now |-> UNIX_EPOCH, ret |-> Returned,
                      pre |-> Counters]
    /\ UNCHANGED pool

MarkRemoved ==
    /\ ~panicked
    /\ UNCHANGED <<classified, popped, pending>>
    /\ \E tx \in StoredTxs :
          LET c == limits_for(tx) IN
          /\ net_total > -MaxDeficit
          /\ c.check_declare_limit => net_declare > -MaxDeficit
          /\ mark_removed(c)
          /\ CountRemoval(c)
          /\ last' = [op |-> "mark_removed", to_check |-> c,
                      now |-> UNIX_EPOCH, ret |-> Returned,
                      pre |-> Counters]
    /\ UNCHANGED pool

Next == CheckInsertLimits \/ TxAgeExceeded \/ UpdateTxLimits \/ MarkRemoved

Spec == Init /\ [][Next]_vars

\* ------------------------------ the owning mempool: one exclusive section per call
\* the transactions the pool holds
Population == BagCardinality(pool)

\* classify -> check -> insert -> record
InsertTx ==
    /\ ~panicked
    /\ UNCHANGED <<classified, popped, pending>>
    /\ BagCardinality(pool) < MaxCount
    /\ \E tx \in StoredTxs, t \in NowTimes :
          LET c == limits_for(tx)
              r == check_insert_limits(c, t) IN
          /\ IF r = Ok
             THEN /\ update_tx_limits(c)
                  /\ CountAdmission(c)
                  /\ pool' = pool (+) SetToBag({c})
             ELSE ReadOnly
          /\ last' = [op |-> "insert_tx", to_check |-> c, now |-> t, ret |-> r,
                      pre |-> Counters]

\* insertion without the check (a transaction put back by block production)
ForceInsertTx ==
    /\ ~panicked
    /\ UNCHANGED <<classified, popped, pending>>
    /\ BagCardinality(pool) < MaxCount
    /\ \E tx \in StoredTxs :
          LET c == limits_for(tx) IN
          /\ update_tx_limits(c)
          /\ CountAdmission(c)
          /\ pool' = pool (+) SetToBag({c})
          /\ last' = [op |-> "force_insert_tx", to_check |-> c,
                      now |-> UNIX_EPOCH, ret |-> Returned,
                      pre |-> Counters]

\* removal, with the classification stored at insertion
RemoveTx ==
    /\ ~panicked
    /\ UNCHANGED <<classified, popped, pending>>
    /\ \E c \in BagToSet(pool) :
          /\ mark_removed(c)
          /\ CountRemoval(c)
          /\ pool' = pool (-) SetToBag({c})
          /\ last' = [op |-> "remove_tx", to_check |-> c,
                      now |-> UNIX_EPOCH, ret |-> Returned,
                      pre |-> Counters]

NextMempool ==
    InsertTx \/ ForceInsertTx \/ RemoveTx \/ CheckInsertLimits

SpecMempool == Init /\ [][NextMempool]_vars

\* the same mempool when nothing is inserted without the check
NextChecked == InsertTx \/ RemoveTx \/ CheckInsertLimits

SpecChecked == Init /\ [][NextChecked]_vars

\* the classifier alone
NextClassify == LimitsFor

SpecClassify == Init /\ [][NextClassify]_vars

\* ------------------------------------------------ a block-production tick
\* "when a transaction is poped from the mempool by block prod, the limits will
\* not be updated until the full tick has been executed and excess transactions
\* are added back into the mempool"
TickFrame ==
    UNCHANGED <<config, current_transactions, current_declare_transactions,
                overflow_checks, panicked, net_total, net_declare, classified,
                pending>>

\* block production pops a transaction; the limiter is not told
PopTx ==
    /\ ~panicked
    /\ BagCardinality(popped) < MaxPopped
    /\ \E c \in BagToSet(pool) :
          /\ pool' = pool (-) SetToBag({c})
          /\ popped' = popped (+) SetToBag({c})
          /\ last' = [op |-> "pop_tx", to_check |-> c, now |-> UNIX_EPOCH,
                      ret |-> RetUnit, pre |-> Counters]
    /\ TickFrame

\* an unused transaction is added back; the limiter is not told
ReAddTx ==
    /\ ~panicked
    /\ \E c \in BagToSet(popped) :
          /\ popped' = popped (-) SetToBag({c})
          /\ pool' = pool (+) SetToBag({c})
          /\ last' = [op |-> "re_add_tx", to_check |-> c, now |-> UNIX_EPOCH,
                      ret |-> RetUnit, pre |-> Counters]
    /\ TickFrame

\* a transaction the block has used is marked removed when the tick ends
ConsumeTx ==
    /\ ~panicked
    /\ UNCHANGED <<classified, pending, pool>>
    /\ \E c \in BagToSet(popped) :
          /\ popped' = popped (-) SetToBag({c})
          /\ mark_removed(c)
          /\ CountRemoval(c)
          /\ last' = [op |-> "consume_tx", to_check |-> c, now |-> UNIX_EPOCH,
                      ret |-> Returned, pre |-> Counters]

NextTick == InsertTx \/ PopTx \/ ReAddTx \/ ConsumeTx

SpecTick == Init /\ [][NextTick]_vars

\* ------------------------- producers whose check and record are separate steps
\* the checks passed and not yet recorded
NumPending == Cardinality({p \in Producers : pending[p] # <<>>})

\* a producer classifies and checks; a passed check is held until recorded
CheckTx ==
    /\ ~panicked
    /\ Population + NumPending < MaxCount
    /\ \E p \in Producers, tx \in StoredTxs, t \in NowTimes :
          LET c == limits_for(tx)
              r == check_insert_limits(c, t) IN
          /\ pending[p] = <<>>
          /\ pending' = IF r = Ok THEN [pending EXCEPT ![p] = <<c>>] ELSE pending
          /\ last' = [op |-> "check_tx", to_check |-> c, now |-> t, ret |-> r,
                      pre |-> Counters]
    /\ ReadOnly
    /\ UNCHANGED <<classified, popped>>

\* the producer inserts and records the transaction whose check it holds
RecordTx ==
    /\ ~panicked
    /\ UNCHANGED <<classified, popped>>
    /\ \E p \in Producers :
          /\ pending[p] # <<>>
          /\ LET c == pending[p][1] IN
                /\ update_tx_limits(c)
                /\ CountAdmission(c)
                /\ pool' = pool (+) SetToBag({c})
                /\ pending' = [pending EXCEPT ![p] = <<>>]
                /\ last' = [op |-> "record_tx", to_check |-> c, now |-> UNIX_EPOCH,
                            ret |-> Returned, pre |-> Counters]

NextUnserialized == CheckTx \/ RecordTx \/ RemoveTx

SpecUnserialized == Init /\ [][NextUnserialized]_vars

\* ------------------------------- a mempool that recomputes the flags at removal
\* a pooled transaction is removed and mark_removed is given a classification
\* computed afresh, which need not be the stored one
RemoveTxRecomputed ==
    /\ ~panicked
    /\ UNCHANGED <<classified, popped, pending>>
    /\ \E c \in BagToSet(pool), tx \in StoredTxs :
          LET d == limits_for(tx) IN
          /\ d.check_declare_limit => net_declare > -MaxDeficit
          /\ mark_removed(d)
          /\ CountRemoval(d)
          /\ pool' = pool (-) SetToBag({c})
          /\ last' = [op |-> "remove_tx_recomputed", to_check |-> d,
                      now |-> UNIX_EPOCH, ret |-> Returned, pre |-> Counters]

NextRecomputed == InsertTx \/ RemoveTxRecomputed

SpecRecomputed == Init /\ [][NextRecomputed]_vars

\* ===================================================================== claims
\* the classifications limits_for gives a transaction type
IsClassOf(c, tx_type) ==
    \E a \in ArrivalTimes : c = limits_for([tx_type |-> tx_type, arrived_at |-> a])

Checked == last.op = "check_insert_limits"
TotalCapReached == current_transactions >= config.max_transactions
DeclareCapReached == current_declare_transactions >= config.max_declare_transactions

\* C1: check_insert_limits tests the total cap, then the declare cap, then the
\* age, and returns the first violation: MaxTransactions whenever the total-cap
\* flag is set and the total cap is reached; otherwise MaxDeclareTransactions
\* whenever the declare flag is set and the declare cap is reached; otherwise
\* Age whenever the transaction is aged out; otherwise Ok.
C1_FixedOrder ==
    Checked =>
        LET c == last.to_check IN
        /\ (c.check_tx_limit /\ TotalCapReached)
              => last.ret = MaxTransactions(config.max_transactions)
        /\ (~(c.check_tx_limit /\ TotalCapReached)
              /\ c.check_declare_limit /\ DeclareCapReached)
              => last.ret = MaxDeclareTransactions(config.max_declare_transactions)
        /\ (~(c.check_tx_limit /\ TotalCapReached)
              /\ ~(c.check_declare_limit /\ DeclareCapReached)
              /\ tx_age_exceeded(c, last.now))
              => last.ret = Age(config.max_age)
        /\ (~(c.check_tx_limit /\ TotalCapReached)
              /\ ~(c.check_declare_limit /\ DeclareCapReached)
              /\ ~tx_age_exceeded(c, last.now))
              => last.ret = Ok

\* a Declare check with all three limits violated at once answers MaxTransactions
C1_Witness ==
    /\ Checked
    /\ last.to_check.check_tx_limit /\ last.to_check.check_declare_limit
    /\ TotalCapReached /\ DeclareCapReached
    /\ tx_age_exceeded(last.to_check, last.now)
    /\ net_total > 0
    /\ last.ret = MaxTransactions(config.max_transactions)

\* C2: a check of an L1Handler classification returns Ok in every state, and no
\* error kind is returned for a classification whose flag is unset:
\* MaxTransactions only with check_tx_limit, MaxDeclareTransactions only with
\* check_declare_limit (Declare), Age only with check_age.
C2_ExemptNeverRejected ==
    Checked =>
        LET c == last.to_check IN
        /\ IsClassOf(c, "L1Handler") => last.ret = Ok
        /\ last.ret.kind = "MaxTransactions" => c.check_tx_limit
        /\ last.ret.kind = "MaxDeclareTransactions"
              => (c.check_declare_limit /\ IsClassOf(c, "Declare"))
        /\ last.ret.kind = "Age" => c.check_age

\* an L1Handler check answered Ok with the total cap reached, the declare cap
\* reached and an arrival time before the cutoff
C2_Witness ==
    /\ Checked
    /\ IsClassOf(last.to_check, "L1Handler")
    /\ TotalCapReached /\ DeclareCapReached
    /\ last.to_check.tx_arrived_at < last.now - config.max_age
    /\ last.ret = Ok

\* C3: a mark_removed call in excess of the update_tx_limits calls (a counter
\* would go below zero) is detected and surfaced instead of wrapping the counter:
\* the call does not return normally.
C3_ExcessRemovalDetected ==
    (last.op = "mark_removed" /\ (net_total < 0 \/ net_declare < 0))
        => last.ret # RetUnit

\* the stored classifications that are tested against the total cap, and those
\* that count toward the declare cap
NumCapChecked ==
    BagCardinality([c \in {x \in DOMAIN pool : x.check_tx_limit} |-> pool[c]])
NumDeclare ==
    BagCardinality([c \in {x \in DOMAIN pool : x.check_declare_limit} |-> pool[c]])

\* C4: while every removal uses the stored classification of an admitted and
\* not yet removed transaction, current_transactions is the number of
\* update_tx_limits calls minus the number of mark_removed calls and is >= 0,
\* and current_declare_transactions is the same difference over the
\* declare-flagged classifications and is >= 0.
C4_CountersAreCallDifferences ==
    /\ current_transactions = net_total
    /\ net_total >= 0
    /\ net_total = BagCardinality(pool)
    /\ current_declare_transactions = net_declare
    /\ net_declare >= 0
    /\ net_declare = NumDeclare

\* a removal of a Declare has happened and transactions of both kinds remain
C4_Witness ==
    /\ last.op = "remove_tx"
    /\ last.to_check.check_declare_limit
    /\ current_declare_transactions >= 1
    /\ current_transactions > current_declare_transactions

\* C5: with max_transactions = N, once N transactions of total-cap-checked
\* categories are admitted, a check of any total-cap-checked classification
\* returns MaxTransactions{max: N} and a check of an L1Handler classification
\* in that state returns Ok.
C5_TotalCapReached ==
    (Checked /\ NumCapChecked = config.max_transactions) =>
        /\ last.to_check.check_tx_limit
              => last.ret = MaxTransactions(config.max_transactions)
        /\ IsClassOf(last.to_check, "L1Handler") => last.ret = Ok

\* N = MaxCap transactions admitted through the checked path alone, and a further
\* one rejected
C5_Witness ==
    /\ Checked
    /\ config.max_transactions = MaxCap
    /\ NumCapChecked = MaxCap
    /\ BagCardinality(pool) = MaxCap
    /\ last.to_check.check_tx_limit
    /\ last.ret = MaxTransactions(MaxCap)

NonAged(c, t) == ~tx_age_exceeded(c, t)

\* C6, as first stated: with max_declare_transactions = M, for every M and every
\* max_transactions, once M Declare transactions are admitted a check of a
\* non-aged Declare returns MaxDeclareTransactions and a check of a non-aged
\* InvokeFunction returns Ok.  (Stated for M >= 1.)
C6_Original ==
    (Checked /\ NumDeclare = config.max_declare_transactions
             /\ config.max_declare_transactions >= 1
             /\ NonAged(last.to_check, last.now)) =>
        /\ IsClassOf(last.to_check, "Declare")
              => last.ret = MaxDeclareTransactions(config.max_declare_transactions)
        /\ IsClassOf(last.to_check, "InvokeFunction") => last.ret = Ok

\* C6, amended: the same while current_transactions < max_transactions; once
\* the total cap is reached both checks return MaxTransactions instead.
C6_DeclareCapReached ==
    (Checked /\ NumDeclare = config.max_declare_transactions
             /\ NonAged(last.to_check, last.now)) =>
        IF current_transactions < config.max_transactions
        THEN /\ IsClassOf(last.to_check, "Declare")
                  => last.ret = MaxDeclareTransactions(config.max_declare_transactions)
             /\ IsClassOf(last.to_check, "InvokeFunction") => last.ret = Ok
        ELSE (IsClassOf(last.to_check, "Declare")
                \/ IsClassOf(last.to_check, "InvokeFunction"))
                  => last.ret = MaxTransactions(config.max_transactions)

\* M = 1 Declare admitted below the total cap, and a further Declare rejected by
\* the declare cap
C6_Witness ==
    /\ Checked
    /\ config.max_declare_transactions = 1
    /\ NumDeclare = 1
    /\ current_transactions < config.max_transactions
    /\ IsClassOf(last.to_check, "Declare")
    /\ NonAged(last.to_check, last.now)
    /\ last.ret = MaxDeclareTransactions(1)

\* C7: a limiter built from for_testing returns Ok from every check, whatever the
\* classification and the arrival time.
C7_ForTestingAcceptsAll ==
    (Checked /\ config = for_testing) => last.ret = Ok

\* now - max_age, replaced by the epoch when SystemTime cannot hold it
Cutoff(t) ==
    IF t - config.max_age >= SYSTEM_TIME_MIN THEN t - config.max_age ELSE UNIX_EPOCH

\* C8: tx_age_exceeded returns false whenever check_age is unset; otherwise it
\* returns true iff tx_arrived_at < cutoff, strictly, with cutoff = now - max_age
\* or the epoch when the subtraction underflows.  So an arrival at
\* now - (max_age + 1) is aged out, and check_insert_limits answers Age when no
\* cap is reached; an arrival at now - max_age or at now is not aged out; and
\* the call returns a value also when max_age > now.
C8_AgeBoundary ==
    LET c == last.to_check
        t == last.now IN
    /\ last.op = "tx_age_exceeded" =>
          /\ last.ret = RetBool(c.check_age /\ c.tx_arrived_at < Cutoff(t))
          /\ ~c.check_age => last.ret = RetBool(FALSE)
          /\ (c.check_age /\ c.tx_arrived_at = t - config.max_age - 1)
                => last.ret = RetBool(TRUE)
          /\ c.tx_arrived_at = t - config.max_age => last.ret = RetBool(FALSE)
          /\ c.tx_arrived_at = t => last.ret = RetBool(FALSE)
    /\ (Checked /\ c.check_age /\ c.tx_arrived_at = t - config.max_age - 1
           /\ ~TotalCapReached /\ ~DeclareCapReached)
          => last.ret = Age(config.max_age)

\* a check one second past the allowed age, below both caps, answered Age
C8_Witness ==
    /\ Checked
    /\ last.to_check.check_age
    /\ last.to_check.tx_arrived_at = last.now - config.max_age - 1
    /\ ~TotalCapReached /\ ~DeclareCapReached
    /\ last.ret = Age(config.max_age)

Admitted(l) ==
    l.op = "force_insert_tx" \/ (l.op = "insert_tx" /\ l.ret = Ok)

\* C9: update_tx_limits adds exactly one to current_transactions for every
\* classification, L1Handler (check_tx_limit unset) included, and one to
\* current_declare_transactions only when check_declare_limit is set.
C9_AdmissionCounts ==
    [][Admitted(last') =>
          /\ current_transactions' = current_transactions + 1
          /\ current_declare_transactions'
                = current_declare_transactions
                    + (IF last'.to_check.check_declare_limit THEN 1 ELSE 0)]_vars

\* admitted L1Handler transactions fill the pool: a cap-checked transaction is
\* rejected with MaxTransactions while fewer than max_transactions cap-checked
\* ones are admitted
C9_Witness ==
    /\ Checked
    /\ last.to_check.check_tx_limit
    /\ last.ret = MaxTransactions(config.max_transactions)
    /\ config.max_transactions >= 1
    /\ NumCapChecked < config.max_transactions
    /\ BagCardinality(pool) - NumCapChecked >= 1

ReadCall(l) == l.op \in {"check_insert_limits", "tx_age_exceeded"}

\* C10: check_insert_limits and tx_age_exceeded leave both counters and the
\* configuration as they were, whether they succeed or fail, and the same call
\* repeated in the same state at the same clock value returns the same result.
C10_ChecksArePure ==
    [][ReadCall(last') =>
          /\ UNCHANGED <<config, current_transactions, current_declare_transactions>>
          /\ (last.op = last'.op /\ last.to_check = last'.to_check
                 /\ last.now = last'.now) => last'.ret = last.ret]_vars

\* a check that failed on a limiter holding admitted transactions
C10_Witness ==
    /\ Checked
    /\ last.ret.kind \in {"MaxTransactions", "MaxDeclareTransactions", "Age"}
    /\ net_total >= 1
    /\ current_transactions = net_total
    /\ current_declare_transactions = net_declare

\* C11: update_tx_limits(c) immediately followed by mark_removed(c) leaves both
\* counters at the values they had before the two calls, for every
\* classification c and every state of the limiter, and the removal returns
\* normally.
C11_RoundTrip ==
    [][(last.op = "update_tx_limits" /\ last'.op = "mark_removed"
          /\ last'.to_check = last.to_check)
        => /\ Counters' = last.pre
           /\ last'.ret = RetUnit]_vars

\* a Declare recorded on a limiter holding one Declare already, and removed again
C11_Witness ==
    /\ last.op = "mark_removed"
    /\ last.to_check.check_declare_limit
    /\ last.pre = <<2, 2>>
    /\ Counters = <<1, 1>>
    /\ net_total = 1 /\ net_declare = 1

\* the scenario: max_transactions = 2, max_declare_transactions = 1, Declare A
\* and InvokeFunction B admitted
ScenarioConfig ==
    config.max_transactions = 2 /\ config.max_declare_transactions = 1
StoredA == limits_for([tx_type |-> "Declare", arrived_at |-> UNIX_EPOCH])
StoredB == limits_for([tx_type |-> "InvokeFunction", arrived_at |-> UNIX_EPOCH])
PoolAB == SetToBag({StoredA, StoredB})
PoolB == SetToBag({StoredB})

C12_Lifted ==
    LET c == last.to_check IN
    /\ (Checked /\ NonAged(c, last.now)
           /\ (c.check_tx_limit => ~TotalCapReached)
           /\ (c.check_declare_limit => ~DeclareCapReached))
          => last.ret = Ok
    /\ (ScenarioConfig /\ pool = PoolAB) =>
          /\ Counters = <<2, 1>>
          /\ (Checked /\ IsClassOf(c, "Declare")) => last.ret = MaxTransactions(2)
    /\ (ScenarioConfig /\ pool = PoolB) =>
          /\ Counters = <<1, 0>>
          /\ (Checked /\ IsClassOf(c, "Declare") /\ NonAged(c, last.now))
                => last.ret = Ok

C12_RemoveA ==
    (ScenarioConfig /\ pool = PoolAB
       /\ last'.op = "remove_tx" /\ last'.to_check = StoredA)
      => (pool' = PoolB /\ Counters' = <<1, 0>>)

\* C12: a rejection caused by a reached cap is lifted by removals.  With
\* max_transactions = 2 and max_declare_transactions = 1, after Declare A and
\* InvokeFunction B the counters are (2, 1) and a Declare check fails with
\* MaxTransactions{2}; removing A with its stored classification gives (1, 0),
\* and a non-aged Declare check returns Ok.  In general a non-aged check
\* succeeds whenever the counters its flags select are below their caps.
C12_RejectionLifted == []C12_Lifted /\ [][C12_RemoveA]_vars

\* the scenario's last step: B alone is left and the Declare check succeeds
C12_Witness ==
    /\ ScenarioConfig
    /\ pool = PoolB
    /\ Counters = <<1, 0>>
    /\ Checked
    /\ IsClassOf(last.to_check, "Declare")
    /\ last.ret = Ok

\* C13: limits_for is a table over the transaction type: Declare sets
\* check_tx_limit, check_declare_limit and check_age; DeployAccount and
\* InvokeFunction set check_tx_limit and check_age but not check_declare_limit;
\* L1Handler sets none of the three; and tx_arrived_at is the transaction's
\* arrival time in all four cases.
C13_ClassificationTable ==
    LET t == classified.tx.tx_type
        l == classified.limits IN
    t \in TxTypes =>
        /\ l.check_tx_limit = (t \in {"Declare", "DeployAccount", "InvokeFunction"})
        /\ l.check_declare_limit = (t = "Declare")
        /\ l.check_age = (t \in {"Declare", "DeployAccount", "InvokeFunction"})
        /\ l.tx_arrived_at = classified.tx.arrived_at

\* an L1Handler transaction from before the epoch has been classified
C13_Witness ==
    /\ classified.tx = [tx_type |-> "L1Handler", arrived_at |-> UNIX_EPOCH - 1]
    /\ ~classified.limits.check_tx_limit
    /\ ~classified.limits.check_declare_limit
    /\ ~classified.limits.check_age
    /\ classified.limits.tx_arrived_at = UNIX_EPOCH - 1

\* C14: a cap of zero rejects everything of its category from the new limiter
\* onwards.  With max_transactions = 0 every check of a Declare, DeployAccount
\* or InvokeFunction returns MaxTransactions{0}; with max_declare_transactions
\* = 0 and the total cap not reached every Declare check returns
\* MaxDeclareTransactions{0}; L1Handler checks return Ok.
C14_ZeroCapRejectsAll ==
    Checked =>
        LET c == last.to_check IN
        /\ (config.max_transactions = 0
              /\ (IsClassOf(c, "Declare") \/ IsClassOf(c, "DeployAccount")
                     \/ IsClassOf(c, "InvokeFunction")))
              => last.ret = MaxTransactions(0)
        /\ (config.max_declare_transactions = 0 /\ ~TotalCapReached
              /\ IsClassOf(c, "Declare"))
              => last.ret = MaxDeclareTransactions(0)
        /\ ((config.max_transactions = 0 \/ config.max_declare_transactions = 0)
              /\ IsClassOf(c, "L1Handler"))
              => last.ret = Ok

\* a Declare check on a new limiter with max_declare_transactions = 0 and room
\* under the total cap
C14_Witness ==
    /\ Checked
    /\ config.max_declare_transactions = 0
    /\ config.max_transactions >= 1
    /\ Counters = <<0, 0>>
    /\ IsClassOf(last.to_check, "Declare")
    /\ last.ret = MaxDeclareTransactions(0)

\* C15: while every mark_removed uses the stored classification of a
\* currently admitted transaction,
\* 0 <= current_declare_transactions <= current_transactions.
C15_DeclareWithinTotal ==
    /\ 0 <= current_declare_transactions
    /\ current_declare_transactions <= current_transactions

\* an InvokeFunction has been removed and a Declare is all that is left
C15_Witness ==
    /\ last.op = "remove_tx"
    /\ ~last.to_check.check_declare_limit
    /\ last.pre = <<2, 1>>
    /\ Counters = <<1, 1>>
    /\ NumDeclare = 1

InTick == popped # EmptyBag

\* C16 as stated: during a block-production round the limiter's
\* current_transactions is at most the pool's population (it may understate
\* it), and outside a round it equals it.
C16_Original ==
    /\ InTick => current_transactions <= Population
    /\ ~InTick => current_transactions = Population

\* C16, amended: during a round current_transactions is the population plus
\* the transactions popped and not yet added back or marked removed, so it is
\* never lower than the population; no insert is admitted past the total cap
\* counted on the population; outside a round the counter equals the
\* population.
C16_CounterCoversPopped ==
    /\ current_transactions = Population + BagCardinality(popped)
    /\ (last.op = "insert_tx" /\ last.ret = Ok /\ last.to_check.check_tx_limit)
          => Population <= config.max_transactions
    /\ ~InTick => current_transactions = Population

\* in a round, an insert is rejected on the total cap while the pool holds
\* fewer transactions than the cap
C16_Witness ==
    /\ InTick
    /\ last.op = "insert_tx"
    /\ last.ret = MaxTransactions(config.max_transactions)
    /\ Population < config.max_transactions
    /\ current_transactions > Population

\* the admitted transactions no cap is checked for (L1Handler)
NumUncapped == Population - NumCapChecked

\* C17: when every check -> record pair and every removal is one atomic step
\* and only a successful check is recorded, the number of admitted cap-checked
\* transactions is <= max_transactions, current_declare_transactions is
\* <= max_declare_transactions, and current_transactions exceeds
\* max_transactions by at most the number of admitted L1Handler transactions.
C17_SerializedCapsHold ==
    /\ NumCapChecked <= config.max_transactions
    /\ current_declare_transactions <= config.max_declare_transactions
    /\ current_transactions <= config.max_transactions + NumUncapped

\* a full pool of cap-checked transactions plus an L1Handler admitted on top
C17_Witness ==
    /\ last.op = "insert_tx"
    /\ last.ret = Ok
    /\ IsClassOf(last.to_check, "L1Handler")
    /\ config.max_transactions = 2
    /\ NumCapChecked = 2
    /\ NumDeclare = config.max_declare_transactions
    /\ current_transactions = 3

\* C18: when check and record are separate steps, a check sees only the
\* recorded admissions: it returns Ok below the caps whatever checks other
\* producers hold, and the record that follows counts the transaction
\* whatever the counters have become.  So check A, check B, record A, record B
\* from current_transactions = max_transactions - 1 ends with
\* current_transactions = max_transactions + 1 (C18_Witness).
C18_CheckIgnoresPending ==
    /\ (last.op = "check_tx"
          /\ (last.to_check.check_tx_limit => ~TotalCapReached)
          /\ (last.to_check.check_declare_limit => ~DeclareCapReached)
          /\ NonAged(last.to_check, last.now))
          => last.ret = Ok
    /\ last.op = "record_tx"
          => /\ current_transactions = last.pre[1] + 1
             /\ current_declare_transactions
                   = last.pre[2] + (IF last.to_check.check_declare_limit THEN 1 ELSE 0)

\* record B: a cap-checked transaction is recorded with the total cap already
\* reached, and the pool holds max_transactions + 1 cap-checked transactions
C18_Witness ==
    /\ last.op = "record_tx"
    /\ last.to_check.check_tx_limit
    /\ config.max_transactions >= 1
    /\ last.pre[1] = config.max_transactions
    /\ current_transactions = config.max_transactions + 1
    /\ NumCapChecked = config.max_transactions + 1
    /\ NumPending = 0

\* C19: mark_removed takes one from current_transactions for every
\* classification and one (in usize arithmetic) from
\* current_declare_transactions only when check_declare_limit is set, whatever
\* the removed transaction was admitted as.  A removal whose declare flag
\* differs from the stored one turns a current_declare_transactions that
\* equalled the number of admitted Declare transactions into one that does
\* not, unless the call panics on the subtraction.
C19_RemovalFollowsPassedFlags ==
    [][last'.op = "remove_tx_recomputed" =>
          LET flag == last'.to_check.check_declare_limit
              stored == NumDeclare' # NumDeclare IN
          /\ current_transactions' = current_transactions - 1
          /\ last'.ret = RetUnit =>
                current_declare_transactions'
                   = IF flag
                     THEN (current_declare_transactions + USIZE_MAX) % (USIZE_MAX + 1)
                     ELSE current_declare_transactions
          /\ last'.ret = RetPanic =>
                /\ flag /\ overflow_checks
                /\ current_declare_transactions = 0
                /\ current_declare_transactions' = 0
          /\ (flag # stored /\ current_declare_transactions = NumDeclare)
                => (last'.ret = RetPanic
                      \/ current_declare_transactions' # NumDeclare')]_vars

\* admitted as InvokeFunction, removed with Declare flags: the one Declare is
\* still in the pool and current_declare_transactions is 0
C19_Witness ==
    /\ last.op = "remove_tx_recomputed"
    /\ last.to_check.check_declare_limit
    /\ last.ret = RetUnit
    /\ last.pre = <<2, 1>>
    /\ Counters = <<1, 0>>
    /\ NumDeclare = 1
    /\ Population = 1

\* C20: config (max_transactions, max_declare_transactions, max_age) is set by
\* new and no call of check_insert_limits, tx_age_exceeded, update_tx_limits
\* or mark_removed changes it; every error check_insert_limits returns
\* carries as max the configured value of the limit it reports.
C20_ErrorCarriesConfig ==
    Checked =>
       \/ last.ret = Ok
       \/ last.ret = MaxTransactions(config.max_transactions)
       \/ last.ret = MaxDeclareTransactions(config.max_declare_transactions)
       \/ last.ret = Age(config.max_age)

C20_ConfigNeverMutated ==
    /\ []C20_ErrorCarriesConfig
    /\ [][config' = config]_vars

\* after admissions and a removal, a check is rejected on the total cap with
\* the counter above the cap; the error carries the cap of the construction
C20_Witness ==
    /\ Checked
    /\ last.ret = MaxTransactions(config.max_transactions)
    /\ current_transactions > config.max_transactions
    /\ net_total = current_transactions
    /\ config.max_transactions >= 1
====
